---- MODULE Spec2Model ----
(***************************************************************************)
(* Verifiable Timestamp Service: the signing server (src/src/server.rs),   *)
(* the verification client (src/src/lib.rs), key persistence               *)
(* (src/src/config.rs) and the KeyPair wrapper (src/ecdsa_lib/src/lib.rs). *)
(*                                                                         *)
(* Byte strings are sequences of integers 0..255; text strings are         *)
(* sequences of one-character strings.  The curve is y^2 = x^3 + 7 as in   *)
(* secp256k1, over a one-byte prime field, so that scalars, coordinates    *)
(* and their range and on-curve checks are computed for real.  Signing is  *)
(* an ideal signature scheme: deterministic, and a signature verifies      *)
(* under a key for a payload only when it was made by that key's scalar    *)
(* for exactly that payload.                                               *)
(***************************************************************************)
EXTENDS Integers, Sequences, FiniteSets, TLC

\* ------------------------------------------------------------------------
\* Bounds
\* ------------------------------------------------------------------------
\* Worker threads of the runtime that can run a handler at the same time.
NumWorkers == 2
\* Threads or processes that can be inside load_or_generate_keys at a time.
NumCallers == 2
\* Calls of load_or_generate_keys that are followed.
MaxCalls == 2

\* ------------------------------------------------------------------------
\* Curve parameters (k256 is secp256k1; same equation, one-byte field)
\* ------------------------------------------------------------------------
FieldPrime == 211
CurveOrder == 199
CurveB == 7
GeneratorX == 3
GeneratorY == 33
\* bytes of one scalar or one coordinate (k256::FieldBytes)
FieldLen == 1

Ok(v) == [ok |-> TRUE, val |-> v]
Err(e) == [ok |-> FALSE, err |-> e]

RECURSIVE BytesToInt(_)
BytesToInt(bs) ==
    IF bs = <<>> THEN 0
    ELSE 256 * BytesToInt(SubSeq(bs, 1, Len(bs) - 1)) + bs[Len(bs)]

RECURSIVE IntToBytes(_, _)
IntToBytes(v, n) ==
    IF n = 0 THEN <<>>
    ELSE Append(IntToBytes(v \div 256, n - 1), v % 256)

RECURSIVE PowMod(_, _, _)
PowMod(a, e, m) ==
    IF e = 0 THEN 1 % m
    ELSE LET h == PowMod(a, e \div 2, m)
             sq == (h * h) % m
         IN IF e % 2 = 1 THEN (sq * (a % m)) % m ELSE sq

InvMod(a) == PowMod(a, FieldPrime - 2, FieldPrime)

\* A point is <<x, y>>; the identity is <<>>.
Identity == <<>>
Generator == <<GeneratorX, GeneratorY>>

OnCurve(x, y) ==
    /\ x \in 0..(FieldPrime - 1)
    /\ y \in 0..(FieldPrime - 1)
    /\ (y * y) % FieldPrime = (((x * x) % FieldPrime) * x + CurveB) % FieldPrime

PointAdd(P, Q) ==
    IF P = Identity THEN Q
    ELSE IF Q = Identity THEN P
    ELSE IF P[1] = Q[1] /\ (P[2] + Q[2]) % FieldPrime = 0 THEN Identity
    ELSE LET lam == IF P = Q
                    THEN (3 * ((P[1] * P[1]) % FieldPrime) * InvMod(2 * P[2])) % FieldPrime
                    ELSE (((Q[2] - P[2]) % FieldPrime) * InvMod((Q[1] - P[1]) % FieldPrime)) % FieldPrime
             x3 == (lam * lam - P[1] - Q[1]) % FieldPrime
             y3 == (lam * ((P[1] - x3) % FieldPrime) - P[2]) % FieldPrime
         IN <<x3, y3>>

RECURSIVE ScalarMul(_, _)
ScalarMul(k, P) ==
    IF k = 0 THEN Identity
    ELSE LET h == ScalarMul(k \div 2, P)
             d == PointAdd(h, h)
         IN IF k % 2 = 1 THEN PointAdd(d, P) ELSE d

\* VerifyingKey::from(&signing_key): the point d*G, for every valid scalar.
PublicPoints == [d \in 1..(CurveOrder - 1) |-> ScalarMul(d, Generator)]

VerifyingKeyFrom(d) == PublicPoints[d]

\* verifying_key.to_encoded_point(true).as_bytes(): tag 2 (even y) or 3
\* (odd y), then the x coordinate.
to_encoded_point(P) == <<2 + (P[2] % 2)>> \o IntToBytes(P[1], FieldLen)

\* VerifyingKey::from_sec1_bytes: compressed or uncompressed SEC1 encoding
\* of a point of the curve other than the identity.
from_sec1_bytes(bytes) ==
    IF Len(bytes) = 1 + FieldLen /\ bytes[1] \in {2, 3}
    THEN LET x == BytesToInt(SubSeq(bytes, 2, 1 + FieldLen))
             ys == {y \in 0..(FieldPrime - 1) : OnCurve(x, y) /\ y % 2 = bytes[1] - 2}
         IN IF ys = {} THEN Err("Invalid public key")
            ELSE Ok(<<x, CHOOSE y \in ys : TRUE>>)
    ELSE IF Len(bytes) = 1 + 2 * FieldLen /\ bytes[1] = 4
    THEN LET x == BytesToInt(SubSeq(bytes, 2, 1 + FieldLen))
             y == BytesToInt(SubSeq(bytes, 2 + FieldLen, 1 + 2 * FieldLen))
         IN IF OnCurve(x, y) THEN Ok(<<x, y>>) ELSE Err("Invalid public key")
    ELSE Err("Invalid public key")

\* SigningKey::from_bytes(FieldBytes::from_slice(bytes)): from_slice panics
\* unless the slice has exactly the length of a scalar; from_bytes rejects
\* zero and every value not below the curve order.
Panic == [ok |-> FALSE, err |-> "panic"]

SigningKey_from_bytes(bytes) ==
    IF Len(bytes) # FieldLen THEN Panic
    ELSE LET d == BytesToInt(bytes)
         IN IF d = 0 \/ d >= CurveOrder THEN Err("Invalid private key")
            ELSE Ok(d)

\* ------------------------------------------------------------------------
\* Wire codec: base64, standard alphabet, padded (general_purpose::STANDARD)
\* ------------------------------------------------------------------------
B64Alphabet ==
    << "A","B","C","D","E","F","G","H","I","J","K","L","M","N","O","P",
       "Q","R","S","T","U","V","W","X","Y","Z","a","b","c","d","e","f",
       "g","h","i","j","k","l","m","n","o","p","q","r","s","t","u","v",
       "w","x","y","z","0","1","2","3","4","5","6","7","8","9","+","/" >>

B64Char(v) == B64Alphabet[v + 1]

\* the 6-bit value of a character, or -1 when it is not in the alphabet
B64Value(c) ==
    IF \E i \in 1..64 : B64Alphabet[i] = c
    THEN (CHOOSE i \in 1..64 : B64Alphabet[i] = c) - 1
    ELSE -1

RECURSIVE Base64Encode(_)
Base64Encode(bytes) ==
    IF bytes = <<>> THEN <<>>
    ELSE IF Len(bytes) = 1
    THEN << B64Char(bytes[1] \div 4), B64Char((bytes[1] % 4) * 16), "=", "=" >>
    ELSE IF Len(bytes) = 2
    THEN << B64Char(bytes[1] \div 4),
            B64Char((bytes[1] % 4) * 16 + bytes[2] \div 16),
            B64Char((bytes[2] % 16) * 4), "=" >>
    ELSE << B64Char(bytes[1] \div 4),
            B64Char((bytes[1] % 4) * 16 + bytes[2] \div 16),
            B64Char((bytes[2] % 16) * 4 + bytes[3] \div 64),
            B64Char(bytes[3] % 64) >>
         \o Base64Encode(SubSeq(bytes, 4, Len(bytes)))

\* Decoding fails on a length that is not a multiple of four, on a character
\* outside the alphabet, on padding anywhere but the end of the last group
\* and on non-zero bits after the last whole byte.
RECURSIVE Base64Decode(_)
Base64Decode(chars) ==
    IF chars = <<>> THEN Ok(<<>>)
    ELSE IF Len(chars) < 4 THEN Err("InvalidLength")
    ELSE LET a == B64Value(chars[1])
             b == B64Value(chars[2])
             c == B64Value(chars[3])
             d == B64Value(chars[4])
             last == Len(chars) = 4
         IN IF a < 0 \/ b < 0 THEN Err("InvalidByte")
            ELSE IF last /\ chars[3] = "=" /\ chars[4] = "="
            THEN IF b % 16 # 0 THEN Err("InvalidLastSymbol")
                 ELSE Ok(<< a * 4 + b \div 16 >>)
            ELSE IF c < 0 THEN Err("InvalidByte")
            ELSE IF last /\ chars[4] = "="
            THEN IF c % 4 # 0 THEN Err("InvalidLastSymbol")
                 ELSE Ok(<< a * 4 + b \div 16, (b % 16) * 16 + c \div 4 >>)
            ELSE IF d < 0 THEN Err("InvalidByte")
            ELSE LET rest == Base64Decode(SubSeq(chars, 5, Len(chars)))
                 IN IF rest.ok
                    THEN Ok(<< a * 4 + b \div 16, (b % 16) * 16 + c \div 4,
                               (c % 4) * 64 + d >> \o rest.val)
                    ELSE rest

\* ------------------------------------------------------------------------
\* Timestamps (chrono)
\* ------------------------------------------------------------------------
DigitChars == << "0","1","2","3","4","5","6","7","8","9" >>

\* v in decimal, zero-padded to n digits
RECURSIVE Pad(_, _)
Pad(v, n) ==
    IF n = 0 THEN <<>>
    ELSE Append(Pad(v \div 10, n - 1), DigitChars[(v % 10) + 1])

\* `%Y-%m-%dT%H:%M:%S` of an instant
DateTimeSeconds(now) ==
    Pad(now.year, 4) \o <<"-">> \o Pad(now.month, 2) \o <<"-">> \o Pad(now.day, 2)
    \o <<"T">> \o Pad(now.hour, 2) \o <<":">> \o Pad(now.minute, 2)
    \o <<":">> \o Pad(now.second, 2)

\* now.format("%Y-%m-%dT%H:%M:%S%.6fZ"): `%.6f` is a dot and exactly six
\* digits, the nanoseconds truncated to microseconds.
format_micros(now) ==
    DateTimeSeconds(now) \o <<".">> \o Pad(now.nano \div 1000, 6) \o <<"Z">>

\* serde's Serialize of DateTime<Utc>: RFC 3339 with SecondsFormat::AutoSi
\* and `Z`: no fraction when the nanoseconds are 0, else three, six or nine
\* digits, the fewest that lose nothing.
serialize_datetime(now) ==
    DateTimeSeconds(now)
    \o (IF now.nano = 0 THEN <<>>
        ELSE IF now.nano % 1000000 = 0 THEN <<".">> \o Pad(now.nano \div 1000000, 3)
        ELSE IF now.nano % 1000 = 0 THEN <<".">> \o Pad(now.nano \div 1000, 6)
        ELSE <<".">> \o Pad(now.nano, 9))
    \o <<"Z">>

\* ------------------------------------------------------------------------
\* Inputs
\* ------------------------------------------------------------------------
\* the message a client posts to /sign
Messages == { <<"A">> }

\* messages a client can hold in a response it verifies
VerifyMessages == Messages \cup { <<"B">> }

\* instants the clock can show: whole second, whole millisecond, whole
\* microsecond, and a nanosecond count that is no multiple of 1000
Nanos == { 0, 123000000, 123456000, 123456789 }

Instants ==
    { [year |-> 2025, month |-> 4, day |-> 1, hour |-> 12, minute |-> 0,
       second |-> 0, nano |-> n] : n \in Nanos }

NoInstant ==
    [year |-> 0, month |-> 0, day |-> 0, hour |-> 0, minute |-> 0,
     second |-> 0, nano |-> 0]

\* scalars KeyPair::generate can draw (two of the CurveOrder - 1)
GeneratedScalars == { 7, 11 }

\* ------------------------------------------------------------------------
\* KeyPair (ecdsa_lib)
\* ------------------------------------------------------------------------
\* KeyPair::generate with the random scalar d
generate(d) == [signing_key |-> d, verifying_key |-> VerifyingKeyFrom(d)]

\* the bytes save_to_files writes to the private and to the public file
private_key_bytes_of(kp) == IntToBytes(kp.signing_key, FieldLen)
public_key_bytes_of(kp) == to_encoded_point(kp.verifying_key)

\* Every payload that is signed or verified has a digest of its own (an ideal
\* hash: no two payloads collide); a payload outside this set has digest 0,
\* which no signature is valid for.
TimeStrings ==
    { format_micros(t) : t \in Instants } \cup { serialize_datetime(t) : t \in Instants }

Payloads == VerifyMessages \cup { m \o ts : m \in VerifyMessages, ts \in TimeStrings }

RECURSIVE SetToSeq(_)
SetToSeq(S) ==
    IF S = {} THEN <<>>
    ELSE LET x == CHOOSE y \in S : TRUE IN <<x>> \o SetToSeq(S \ {x})

PayloadSeq == SetToSeq(Payloads)

NumDigests == Len(PayloadSeq) + 1

Digest(data) ==
    IF \E i \in 1..Len(PayloadSeq) : PayloadSeq[i] = data
    THEN CHOOSE i \in 1..Len(PayloadSeq) : PayloadSeq[i] = data
    ELSE 0

\* signing_key.sign(message): deterministic; r and s are scalars in
\* 1..CurveOrder-1 that together determine the signing scalar and the digest.
sign(kp, data) ==
    LET code == (kp.signing_key - 1) * NumDigests + Digest(data)
    IN [r |-> 1 + (code % (CurveOrder - 1)), s |-> 1 + (code \div (CurveOrder - 1))]

\* verifying_key.verify(message, signature).is_ok(): true exactly when the
\* signature was made for this payload by the scalar of this point.
\* verification that does not compare the digest of the payload
ecdsa_verify_anydata(vk, data, sig) ==
    LET code == (sig.r - 1) + (sig.s - 1) * (CurveOrder - 1)
        d == (code \div NumDigests) + 1
    IN /\ d \in 1..(CurveOrder - 1)
       /\ VerifyingKeyFrom(d) = vk

\* verification that does not compare the signer's point with the key
ecdsa_verify_anykey(vk, data, sig) ==
    LET code == (sig.r - 1) + (sig.s - 1) * (CurveOrder - 1)
        d == (code \div NumDigests) + 1
        dg == code % NumDigests
    IN /\ d \in 1..(CurveOrder - 1)
       /\ dg # 0
       /\ dg = Digest(data)

ecdsa_verify(vk, data, sig) ==
    LET code == (sig.r - 1) + (sig.s - 1) * (CurveOrder - 1)
        d == (code \div NumDigests) + 1
        dg == code % NumDigests
    IN /\ d \in 1..(CurveOrder - 1)
       /\ dg # 0
       /\ dg = Digest(data)
       /\ VerifyingKeyFrom(d) = vk

\* KeyPair::verify that accepts the signer's signature over any payload
verify_any_payload(kp, data, sig) ==
    LET code == (sig.r - 1) + (sig.s - 1) * (CurveOrder - 1)
        d == (code \div NumDigests) + 1
    IN /\ d \in 1..(CurveOrder - 1)
       /\ VerifyingKeyFrom(d) = kp.verifying_key

verify(kp, data, sig) == ecdsa_verify(kp.verifying_key, data, sig)

\* Signature::to_vec: r then s, big-endian, fixed width
signature_to_vec(sig) == IntToBytes(sig.r, FieldLen) \o IntToBytes(sig.s, FieldLen)

\* Signature::try_from(&[u8]): exactly two scalars, each in 1..CurveOrder-1
signature_try_from(bytes) ==
    IF Len(bytes) # 2 * FieldLen THEN Err("Invalid signature")
    ELSE LET r == BytesToInt(SubSeq(bytes, 1, FieldLen))
             s == BytesToInt(SubSeq(bytes, FieldLen + 1, 2 * FieldLen))
         IN IF r \in 1..(CurveOrder - 1) /\ s \in 1..(CurveOrder - 1)
            THEN Ok([r |-> r, s |-> s])
            ELSE Err("Invalid signature")

\* ------------------------------------------------------------------------
\* Verification client (src/src/lib.rs)
\* ------------------------------------------------------------------------
\* verify_signature taking a signature that does not parse for a valid one
verify_signature_lenient(signed, key) ==
    LET data == signed.message \o signed.time_signed
        pub_bytes == Base64Decode(key.public_key)
        sig_bytes == Base64Decode(signed.signature)
    IN IF ~pub_bytes.ok THEN FALSE
       ELSE IF ~sig_bytes.ok THEN FALSE
       ELSE LET vk == from_sec1_bytes(pub_bytes.val)
                sig == signature_try_from(sig_bytes.val)
            IN IF ~vk.ok THEN FALSE
               ELSE IF ~sig.ok THEN TRUE
               ELSE ecdsa_verify(vk.val, data, sig.val)

\* verify_signature dropping the outcome of the verification itself
verify_signature_unchecked(signed, key) ==
    LET pub_bytes == Base64Decode(key.public_key)
        sig_bytes == Base64Decode(signed.signature)
    IN IF ~pub_bytes.ok THEN FALSE
       ELSE IF ~sig_bytes.ok THEN FALSE
       ELSE LET vk == from_sec1_bytes(pub_bytes.val)
                sig == signature_try_from(sig_bytes.val)
            IN IF ~vk.ok THEN FALSE
               ELSE IF ~sig.ok THEN FALSE
               ELSE TRUE

verify_signature(signed, key) ==
    LET data == signed.message \o signed.time_signed
        pub_bytes == Base64Decode(key.public_key)
        sig_bytes == Base64Decode(signed.signature)
    IN IF ~pub_bytes.ok THEN FALSE
       ELSE IF ~sig_bytes.ok THEN FALSE
       ELSE LET vk == from_sec1_bytes(pub_bytes.val)
                sig == signature_try_from(sig_bytes.val)
            IN IF ~vk.ok THEN FALSE
               ELSE IF ~sig.ok THEN FALSE
               ELSE ecdsa_verify(vk.val, data, sig.val)

\* ------------------------------------------------------------------------
\* Files
\* ------------------------------------------------------------------------
PRIVATE_BIN == "private_key.bin"
PUBLIC_BIN == "public_key.bin"

\* std::process::id() of the one OS process the servers run in
ProcessId == "4242"

\* process ids std::process::id() can return: the smallest, the one of the
\* model and the largest u32
ProcessIds == { "1", ProcessId, "4294967295" }

\* the temp file of the private key named without the process id
priv_file_no_id(unique_id) == "private_key" \o ".bin"

\* format!("private_key_{}.bin", unique_id), format!("public_key_{}.bin", unique_id)
priv_file(unique_id) == "private_key_" \o unique_id \o ".bin"
pub_file(unique_id) == "public_key_" \o unique_id \o ".bin"

FileNames == { PRIVATE_BIN, PUBLIC_BIN, priv_file(ProcessId), pub_file(ProcessId) }

NoFile == [exists |-> FALSE, data |-> <<>>]
FileOf(bytes) == [exists |-> TRUE, data |-> bytes]

\* File::open(path)?.read_to_end(..)
read_file(fsys, path) ==
    IF fsys[path].exists THEN Ok(fsys[path].data) ELSE Err("NotFound")

\* first half of KeyPair::load_from_files: the signing key
load_signing_key(fsys, private_key_path) ==
    LET f == read_file(fsys, private_key_path)
    IN IF ~f.ok THEN f ELSE SigningKey_from_bytes(f.val)

\* second half of KeyPair::load_from_files: the verifying key
load_verifying_key(fsys, public_key_path) ==
    LET f == read_file(fsys, public_key_path)
    IN IF ~f.ok THEN f ELSE from_sec1_bytes(f.val)

\* KeyPair::load_from_files on a file system that does not change meanwhile
load_from_files(fsys, private_key_path, public_key_path) ==
    LET sk == load_signing_key(fsys, private_key_path)
    IN IF ~sk.ok THEN sk
       ELSE LET vk == load_verifying_key(fsys, public_key_path)
            IN IF ~vk.ok THEN vk
               ELSE Ok([signing_key |-> sk.val, verifying_key |-> vk.val])

\* KeyPair::save_to_files writing the public key with the tag of an even y
save_to_files_even_tag(fsys, kp, private_key_path, public_key_path) ==
    [fsys EXCEPT ![private_key_path] = FileOf(private_key_bytes_of(kp)),
                 ![public_key_path] =
                     FileOf(<<2>> \o SubSeq(public_key_bytes_of(kp), 2, 1 + FieldLen))]

\* KeyPair::save_to_files with no other writer of the two files meanwhile
save_to_files(fsys, kp, private_key_path, public_key_path) ==
    [fsys EXCEPT ![private_key_path] = FileOf(private_key_bytes_of(kp)),
                 ![public_key_path] = FileOf(public_key_bytes_of(kp))]

\* ------------------------------------------------------------------------
\* Server (src/src/server.rs)
\* ------------------------------------------------------------------------
VARIABLES
    servers,    \* server instance -> the key bytes it was started with
    fs,         \* file name -> file
    workers,    \* worker thread -> the request it is handling
    vcase,      \* a verification by a client: its inputs and its result
    lib,        \* a use of the KeyPair library on the key files: its result
    callers,    \* caller of load_or_generate_keys -> where it is in the call
    returns     \* what the finished calls of load_or_generate_keys returned

vars == << servers, fs, workers, vcase, lib, callers, returns >>

ServerIds == { "s1", "s2" }
Workers == 1..NumWorkers
Callers == 1..NumCallers

NoResponse ==
    [status |-> 0, request |-> "", message |-> <<>>, time |-> <<>>,
     public_key |-> <<>>, signature |-> <<>>, body |-> ""]

NoKeyPair == Err("none")

IdleWorker ==
    [pc |-> "idle", route |-> "", srv |-> "", message |-> <<>>, now |-> NoInstant,
     keypair |-> NoKeyPair, timestamp_str |-> <<>>, resp |-> NoResponse]

\* KeyResponse with the key encoded without padding
KeyResponse_nopad(now, public_key) ==
    [NoResponse EXCEPT !.status = 200, !.request = "GET",
                       !.time = serialize_datetime(now),
                       !.public_key = SelectSeq(Base64Encode(public_key),
                                                LAMBDA c : c # "=")]

\* KeyResponse as JSON
KeyResponse(now, public_key) ==
    [NoResponse EXCEPT !.status = 200, !.request = "GET",
                       !.time = serialize_datetime(now),
                       !.public_key = Base64Encode(public_key)]

\* SignResponse as JSON: time_signed is the DateTime<Utc>, serialized by serde
SignResponse(message, now, sig) ==
    [NoResponse EXCEPT !.status = 200, !.request = "POST",
                       !.message = message,
                       !.time = serialize_datetime(now),
                       !.signature = Base64Encode(signature_to_vec(sig))]

KeyLoadError == [NoResponse EXCEPT !.status = 500, !.body = "Key load error"]

BadRequest == [NoResponse EXCEPT !.status = 400, !.body = "Invalid request"]

\* GET /key
handle_get_key(w, s, now) ==
    /\ workers[w].pc = "idle"
    /\ workers' = [workers EXCEPT ![w] =
          [IdleWorker EXCEPT !.pc = "done", !.route = "/key", !.srv = s,
                             !.resp = KeyResponse(now, servers[s].public_key_bytes)]]
    /\ UNCHANGED << servers, fs, vcase, lib, callers, returns >>

\* the fallback answering as a router without one does: 404 and no body
fallback_handler_not_found(w, s) ==
    /\ workers[w].pc = "idle"
    /\ workers' = [workers EXCEPT ![w] =
          [IdleWorker EXCEPT !.pc = "done", !.route = "other", !.srv = s,
                             !.resp = [NoResponse EXCEPT !.status = 404]]]
    /\ UNCHANGED << servers, fs, vcase, lib, callers, returns >>

\* any other route
fallback_handler(w, s) ==
    /\ workers[w].pc = "idle"
    /\ workers' = [workers EXCEPT ![w] =
          [IdleWorker EXCEPT !.pc = "done", !.route = "other", !.srv = s,
                             !.resp = BadRequest]]
    /\ UNCHANGED << servers, fs, vcase, lib, callers, returns >>

\* POST /sign, up to the first file operation: the clock is read and the
\* message taken from the request
SignStart(w, s, message, now) ==
    /\ workers[w].pc = "idle"
    /\ workers' = [workers EXCEPT ![w] =
          [IdleWorker EXCEPT !.pc = "write_priv", !.route = "/sign", !.srv = s,
                             !.message = message, !.now = now]]
    /\ UNCHANGED << servers, fs, vcase, lib, callers, returns >>

\* let _ = fs::write(&priv_file, &private_key_bytes)
SignWritePriv(w) ==
    /\ workers[w].pc = "write_priv"
    /\ fs' = [fs EXCEPT ![priv_file(ProcessId)] =
                 FileOf(servers[workers[w].srv].private_key_bytes)]
    /\ workers' = [workers EXCEPT ![w].pc = "write_pub"]
    /\ UNCHANGED << servers, vcase, lib, callers, returns >>

\* let _ = fs::write(&pub_file, &public_key_bytes)
SignWritePub(w) ==
    /\ workers[w].pc = "write_pub"
    /\ fs' = [fs EXCEPT ![pub_file(ProcessId)] =
                 FileOf(servers[workers[w].srv].public_key_bytes)]
    /\ workers' = [workers EXCEPT ![w].pc = "load_priv"]
    /\ UNCHANGED << servers, vcase, lib, callers, returns >>

\* KeyPair::load_from_files, the private file: an error ends the load, a
\* panic ends the handler with no response and no clean-up
SignLoadPriv(w) ==
    /\ workers[w].pc = "load_priv"
    /\ LET sk == load_signing_key(fs, priv_file(ProcessId))
       IN workers' = [workers EXCEPT
             ![w].pc = IF sk.ok THEN "load_pub"
                       ELSE IF sk = Panic THEN "panicked" ELSE "remove_priv",
             ![w].keypair = IF sk.ok
                            THEN Ok([signing_key |-> sk.val, verifying_key |-> Identity])
                            ELSE sk]
    /\ UNCHANGED << servers, fs, vcase, lib, callers, returns >>

\* loading the public file and refusing a point that is not the point of
\* the signing key
SignLoadPub_cross_checked(w) ==
    /\ workers[w].pc = "load_pub"
    /\ LET vk == load_verifying_key(fs, pub_file(ProcessId))
           sk == workers[w].keypair.val.signing_key
       IN workers' = [workers EXCEPT
             ![w].pc = "remove_priv",
             ![w].keypair = IF ~vk.ok THEN vk
                            ELSE IF VerifyingKeyFrom(sk) # vk.val THEN Err("Key mismatch")
                            ELSE Ok([signing_key |-> sk, verifying_key |-> vk.val])]
    /\ UNCHANGED << servers, fs, vcase, lib, callers, returns >>

\* KeyPair::load_from_files, the public file
SignLoadPub(w) ==
    /\ workers[w].pc = "load_pub"
    /\ LET vk == load_verifying_key(fs, pub_file(ProcessId))
       IN workers' = [workers EXCEPT
             ![w].pc = "remove_priv",
             ![w].keypair = IF vk.ok
                            THEN Ok([signing_key |-> workers[w].keypair.val.signing_key,
                                     verifying_key |-> vk.val])
                            ELSE vk]
    /\ UNCHANGED << servers, fs, vcase, lib, callers, returns >>

\* let _ = fs::remove_file(&priv_file), in either arm of the match
SignRemovePriv(w) ==
    /\ workers[w].pc = "remove_priv"
    /\ fs' = [fs EXCEPT ![priv_file(ProcessId)] = NoFile]
    /\ workers' = [workers EXCEPT ![w].pc = "remove_pub"]
    /\ UNCHANGED << servers, vcase, lib, callers, returns >>

\* The rest of handle_post_sign: let _ = fs::remove_file(&pub_file), then
\* 500 "Key load error" when the load failed, else the signature over
\* message + timestamp_str and the 200 response.
SignFinish(w) ==
    /\ workers[w].pc = "remove_pub"
    /\ fs' = [fs EXCEPT ![pub_file(ProcessId)] = NoFile]
    /\ LET self == workers[w]
           timestamp_str == format_micros(self.now)
           data_to_sign == self.message \o timestamp_str
       IN workers' = [workers EXCEPT ![w] =
             IF self.keypair.ok
             THEN [self EXCEPT !.pc = "done",
                               !.timestamp_str = timestamp_str,
                               !.resp = SignResponse(self.message, self.now,
                                                     sign(self.keypair.val, data_to_sign))]
             ELSE [self EXCEPT !.pc = "done", !.resp = KeyLoadError]]
    /\ UNCHANGED << servers, vcase, lib, callers, returns >>

\* the response is sent (or the panicked task is dropped) and the worker
\* thread takes the next request
WorkerNext(w) ==
    /\ workers[w].pc \in { "done", "panicked" }
    /\ workers' = [workers EXCEPT ![w] = IdleWorker]
    /\ UNCHANGED << servers, fs, vcase, lib, callers, returns >>

\* The 200 response of handle_post_sign for a loaded key pair, with the
\* timestamp string that was signed.
sign_request(kp, message, now) ==
    LET timestamp_str == format_micros(now)
        data_to_sign == message \o timestamp_str
    IN [timestamp_str |-> timestamp_str,
        resp |-> SignResponse(message, now, sign(kp, data_to_sign))]

\* ------------------------------------------------------------------------
\* Start-up
\* ------------------------------------------------------------------------
KeyBytes(private_key_bytes, public_key_bytes) ==
    [private_key_bytes |-> private_key_bytes, public_key_bytes |-> public_key_bytes]

\* what save_to_files stores for a generated key pair
SavedKeys(d) ==
    KeyBytes(private_key_bytes_of(generate(d)), public_key_bytes_of(generate(d)))

\* private-key files that are not a scalar in 1..CurveOrder-1: empty, too
\* long, zero, the curve order, above the curve order
BadPrivateKeys == { <<>>, <<0, 7>>, <<0>>, <<CurveOrder>>, <<255>> }

\* public-key files that are not a point: empty, too short, too long, an x
\* with no point, an x outside the field, an unknown tag
BadPublicKeys == { <<>>, <<2>>, <<2, 66, 0>>, <<2, 5>>, <<2, 255>>, <<5, 66>> }

\* Key bytes a server can be started with: main passes on whatever the two
\* key files hold (a saved pair, the halves of two pairs, or damaged files).
StartupKeys ==
    { SavedKeys(7),
      KeyBytes(SavedKeys(7).private_key_bytes, SavedKeys(11).public_key_bytes),
      KeyBytes(<<>>, SavedKeys(7).public_key_bytes),
      KeyBytes(<<0>>, SavedKeys(7).public_key_bytes),
      KeyBytes(SavedKeys(7).private_key_bytes, <<2, 5>>) }

NoCase ==
    [stage |-> "none",
     issued |-> [scalar |-> 0, message |-> <<>>, timestamp_str |-> <<>>,
                 signature |-> <<>>],
     signed |-> [message |-> <<>>, time_signed |-> <<>>, signature |-> <<>>],
     key |-> [public_key |-> <<>>],
     result |-> FALSE]

NoLib == [stage |-> "none", result |-> NoKeyPair]

\* a caller that is not inside load_or_generate_keys
IdleCaller ==
    [pc |-> "idle", found |-> <<FALSE, FALSE>>, generated |-> FALSE,
     keypair |-> NoKeyPair, priv_bytes |-> <<>>]

NoCallers == [c \in Callers |-> IdleCaller]

\* one server, started by main with the contents of the two key files
Init ==
    /\ \E k \in StartupKeys :
          /\ servers = [s \in {"s1"} |-> k]
          /\ fs = [f \in FileNames |->
                     IF f = PRIVATE_BIN THEN FileOf(k.private_key_bytes)
                     ELSE IF f = PUBLIC_BIN THEN FileOf(k.public_key_bytes)
                     ELSE NoFile]
    /\ workers = [w \in Workers |-> IdleWorker]
    /\ vcase = NoCase
    /\ lib = NoLib
    /\ callers = NoCallers
    /\ returns = <<>>

Next ==
    \E w \in Workers :
        \/ \E s \in DOMAIN servers, now \in Instants : handle_get_key(w, s, now)
        \/ \E s \in DOMAIN servers : fallback_handler(w, s)
        \/ \E s \in DOMAIN servers, m \in Messages, now \in Instants :
               SignStart(w, s, m, now)
        \/ SignWritePriv(w)
        \/ SignWritePub(w)
        \/ SignLoadPriv(w)
        \/ SignLoadPub(w)
        \/ SignRemovePriv(w)
        \/ SignFinish(w)
        \/ WorkerNext(w)

Spec == Init /\ [][Next]_vars

\* two servers in one process, each started with a key pair of its own, as
\* the integration tests spawn them
InitTwoServers ==
    /\ servers = [s \in ServerIds |-> IF s = "s1" THEN SavedKeys(7) ELSE SavedKeys(11)]
    /\ fs = [f \in FileNames |-> NoFile]
    /\ workers = [w \in Workers |-> IdleWorker]
    /\ vcase = NoCase
    /\ lib = NoLib
    /\ callers = NoCallers
    /\ returns = <<>>

SpecTwoServers == InitTwoServers /\ [][Next]_vars

\* ------------------------------------------------------------------------
\* A client verifying a response (verify_signature on its own)
\* ------------------------------------------------------------------------
\* EcdsaSignedTimestamp and EcdsaVerificationKey, deserialized from the JSON
\* of a sign response and of a key response
SignedOf(resp) ==
    [message |-> resp.message, time_signed |-> resp.time, signature |-> resp.signature]

KeyOf(resp) == [public_key |-> resp.public_key]

\* messages a client can find in a response: the signed ones, the empty
\* one and one that continues a signed one
PresentedMessages == VerifyMessages \cup { <<>>, <<"A", "2">> }

\* every way to cut a payload into a message and a timestamp
Splits(data) ==
    { << SubSeq(data, 1, i), SubSeq(data, i + 1, Len(data)) >> : i \in 0..Len(data) }

\* signature fields that are no signature: not base64, a length that is no
\* multiple of four, misplaced padding, empty, too short, too long, r = 0,
\* s = the curve order
GarbageSignatures ==
    { <<"!", "!", "!", "!">>, <<"A", "B", "C">>, <<"A", "=", "A", "A">>, <<>>,
      Base64Encode(<<7>>), Base64Encode(<<7, 7, 7>>),
      Base64Encode(<<0, 7>>), Base64Encode(<<7, CurveOrder>>) }

\* public-key fields that are no key: not base64, bad length, and the base64
\* of byte strings that are no point
GarbageKeys ==
    { <<"!", "!", "!", "!">>, <<"A", "B", "C", "D", "E">>, <<>>,
      Base64Encode(<<2>>), Base64Encode(<<2, 66, 0>>), Base64Encode(<<2, 5>>),
      Base64Encode(<<2, 255>>), Base64Encode(<<5, 66>>), Base64Encode(<<4, 66, 12>>) }

\* the public key of scalar d on the wire, compressed and uncompressed
KeyStrings(d) ==
    { Base64Encode(to_encoded_point(VerifyingKeyFrom(d))),
      Base64Encode(<<4>> \o IntToBytes(VerifyingKeyFrom(d)[1], FieldLen)
                        \o IntToBytes(VerifyingKeyFrom(d)[2], FieldLen)) }

\* A server with the generated key d signed message m at instant t; the
\* client verifies what it holds: either the issued signature with some
\* (message, time-signed) pair under a real key, or the signed pair with
\* some signature field and some key field.
InitVerify ==
    /\ servers = [s \in {"s1"} |-> SavedKeys(7)]
    /\ fs = [f \in FileNames |-> NoFile]
    /\ workers = [w \in Workers |-> IdleWorker]
    /\ lib = NoLib
    /\ callers = NoCallers
    /\ returns = <<>>
    /\ \E d \in GeneratedScalars, m \in VerifyMessages, t \in Instants :
          LET sr == sign_request(generate(d), m, t)
              issued == [scalar |-> d, message |-> m, timestamp_str |-> sr.timestamp_str,
                         signature |-> sr.resp.signature]
          IN \/ \E pair \in Splits(m \o sr.timestamp_str)
                            \cup (PresentedMessages \X TimeStrings),
                   ks \in UNION { KeyStrings(e) : e \in GeneratedScalars } :
                   vcase = [stage |-> "input", issued |-> issued,
                            signed |-> [message |-> pair[1], time_signed |-> pair[2],
                                        signature |-> sr.resp.signature],
                            key |-> [public_key |-> ks],
                            result |-> FALSE]
             \/ \E sg \in GarbageSignatures \cup { sr.resp.signature },
                   ks \in GarbageKeys \cup KeyStrings(d) :
                   vcase = [stage |-> "input", issued |-> issued,
                            signed |-> [message |-> m, time_signed |-> sr.timestamp_str,
                                        signature |-> sg],
                            key |-> [public_key |-> ks],
                            result |-> FALSE]

VerifyStep ==
    /\ vcase.stage = "input"
    /\ vcase' = [vcase EXCEPT !.stage = "done",
                              !.result = verify_signature(vcase.signed, vcase.key)]
    /\ UNCHANGED << servers, fs, workers, lib, callers, returns >>

NextVerify == VerifyStep

SpecVerify == InitVerify /\ [][NextVerify]_vars

\* ------------------------------------------------------------------------
\* Loading a key pair from the two key files (KeyPair::load_from_files on
\* its own)
\* ------------------------------------------------------------------------
PrivateFiles ==
    { NoFile } \cup { FileOf(b) : b \in BadPrivateKeys }
    \cup { FileOf(SavedKeys(d).private_key_bytes) : d \in GeneratedScalars }

PublicFiles ==
    { NoFile } \cup { FileOf(b) : b \in BadPublicKeys }
    \cup { FileOf(SavedKeys(d).public_key_bytes) : d \in GeneratedScalars }

InitLoad ==
    /\ servers = [s \in {"s1"} |-> SavedKeys(7)]
    /\ \E pf \in PrivateFiles, qf \in PublicFiles :
          fs = [f \in FileNames |->
                  IF f = PRIVATE_BIN THEN pf ELSE IF f = PUBLIC_BIN THEN qf ELSE NoFile]
    /\ workers = [w \in Workers |-> IdleWorker]
    /\ vcase = NoCase
    /\ lib = [stage |-> "files", result |-> NoKeyPair]
    /\ callers = NoCallers
    /\ returns = <<>>

LoadKeys ==
    /\ lib.stage = "files"
    /\ lib' = [stage |-> "loaded",
               result |-> load_from_files(fs, PRIVATE_BIN, PUBLIC_BIN)]
    /\ UNCHANGED << servers, fs, workers, vcase, callers, returns >>

NextLoad == LoadKeys

SpecLoad == InitLoad /\ [][NextLoad]_vars

\* ------------------------------------------------------------------------
\* The KeyPair library used on its own (src/ecdsa_lib/src/lib.rs, as its
\* tests and examples/demo.rs use it): generate, save, load, sign, overwrite
\* a byte of the signature, verify
\* ------------------------------------------------------------------------
\* scalars KeyPair::generate can draw here: the two of the server and the
\* smallest and the largest
LibraryScalars == GeneratedScalars \cup { 1, CurveOrder - 1 }

NoTamper == [done |-> FALSE, index |-> 0, old |-> 0, value |-> 0]

NewLib ==
    [stage |-> "new", kp |-> NoKeyPair, loaded |-> NoKeyPair, message |-> <<>>,
     signer |-> "", signature |-> <<>>, tamper |-> NoTamper, verifier |-> "",
     decoded |-> NoKeyPair, result |-> NoKeyPair]

\* the key pair a test calls "keypair" or "loaded_keypair"
LibKeyPair(name) == IF name = "keypair" THEN lib.kp.val ELSE lib.loaded.val

KeyPairNames == { "keypair", "loaded_keypair" }

InitKeyPair ==
    /\ servers = [s \in {"s1"} |-> SavedKeys(7)]
    /\ fs = [f \in FileNames |-> NoFile]
    /\ workers = [w \in Workers |-> IdleWorker]
    /\ vcase = NoCase
    /\ lib = NewLib
    /\ callers = NoCallers
    /\ returns = <<>>

\* let keypair = KeyPair::generate();
LibGenerate(d) ==
    /\ lib.stage = "new"
    /\ lib' = [lib EXCEPT !.stage = "generated", !.kp = Ok(generate(d))]
    /\ UNCHANGED << servers, fs, workers, vcase, callers, returns >>

\* keypair.save_to_files(private_key_path, public_key_path).unwrap();
LibSave ==
    /\ lib.stage = "generated"
    /\ fs' = save_to_files(fs, lib.kp.val, PRIVATE_BIN, PUBLIC_BIN)
    /\ lib' = [lib EXCEPT !.stage = "saved"]
    /\ UNCHANGED << servers, workers, vcase, callers, returns >>

\* let loaded_keypair = KeyPair::load_from_files(private_key_path, public_key_path)
LibLoad ==
    /\ lib.stage = "saved"
    /\ lib' = [lib EXCEPT !.stage = "loaded",
                          !.loaded = load_from_files(fs, PRIVATE_BIN, PUBLIC_BIN)]
    /\ UNCHANGED << servers, fs, workers, vcase, callers, returns >>

\* let signature = <signer>.sign(message);
LibSign(name, message) ==
    /\ lib.stage = "loaded"
    /\ name = "loaded_keypair" => lib.loaded.ok
    /\ lib' = [lib EXCEPT !.stage = "signed",
                          !.signer = name,
                          !.message = message,
                          !.signature = signature_to_vec(sign(LibKeyPair(name), message))]
    /\ UNCHANGED << servers, fs, workers, vcase, callers, returns >>

\* signature_bytes[i] = v;  (test_badsig: index 3, value 0x42)
LibTamper(i, v) ==
    /\ lib.stage = "signed"
    /\ i \in 1..Len(lib.signature)
    /\ lib' = [lib EXCEPT !.stage = "tampered",
                          !.tamper = [done |-> TRUE, index |-> i,
                                      old |-> lib.signature[i], value |-> v],
                          !.signature = [lib.signature EXCEPT ![i] = v]]
    /\ UNCHANGED << servers, fs, workers, vcase, callers, returns >>

\* Signature::from_bytes(&signature_bytes) and <verifier>.verify(message, &signature)
LibVerify(name) ==
    /\ lib.stage \in { "signed", "tampered" }
    /\ name = "loaded_keypair" => lib.loaded.ok
    /\ LET decoded == signature_try_from(lib.signature)
       IN lib' = [lib EXCEPT !.stage = "verified",
                             !.verifier = name,
                             !.decoded = decoded,
                             !.result =
                                 IF decoded.ok
                                 THEN Ok(verify(LibKeyPair(name), lib.message, decoded.val))
                                 ELSE decoded]
    /\ UNCHANGED << servers, fs, workers, vcase, callers, returns >>

NextKeyPair ==
    \/ \E d \in LibraryScalars : LibGenerate(d)
    \/ LibSave
    \/ LibLoad
    \/ \E name \in KeyPairNames, message \in VerifyMessages : LibSign(name, message)
    \/ \E i \in 1..(2 * FieldLen), v \in 0..255 : LibTamper(i, v)
    \/ \E name \in KeyPairNames : LibVerify(name)

SpecKeyPair == InitKeyPair /\ [][NextKeyPair]_vars

\* ------------------------------------------------------------------------
\* Key persistence (src/src/config.rs)
\* ------------------------------------------------------------------------
\* calls of load_or_generate_keys begun so far
CallsBegun == Len(returns) + Cardinality({ c \in Callers : callers[c].pc # "idle" })

\* what a call returns, with what it found and left on disk
Returned(c, ok, priv_bytes, pub_bytes) ==
    [caller |-> c, ok |-> ok, priv |-> priv_bytes, pub |-> pub_bytes,
     found |-> callers[c].found, generated |-> callers[c].generated,
     fresh |-> callers[c].keypair,
     files |-> << fs[PRIVATE_BIN], fs[PUBLIC_BIN] >>]

\* the existence check taken for "a file is missing" whatever is on disk
KeysCheck_regenerate(c, alone) ==
    /\ callers[c].pc = "idle"
    /\ CallsBegun < MaxCalls
    /\ alone => \A o \in Callers : callers[o].pc = "idle"
    /\ callers' = [callers EXCEPT ![c] =
          [IdleCaller EXCEPT !.found = << fs[PRIVATE_BIN].exists, fs[PUBLIC_BIN].exists >>,
                             !.generated = TRUE,
                             !.pc = "generate"]]
    /\ UNCHANGED << servers, fs, workers, vcase, lib, returns >>

\* if !Path::new(PRIVATE_BIN).exists() || !Path::new(PUBLIC_BIN).exists();
\* alone is true when the call may not overlap another one
KeysCheck(c, alone) ==
    /\ callers[c].pc = "idle"
    /\ CallsBegun < MaxCalls
    /\ alone => \A o \in Callers : callers[o].pc = "idle"
    /\ LET found == << fs[PRIVATE_BIN].exists, fs[PUBLIC_BIN].exists >>
       IN callers' = [callers EXCEPT ![c] =
             [IdleCaller EXCEPT !.found = found,
                                !.generated = ~(found[1] /\ found[2]),
                                !.pc = IF found[1] /\ found[2]
                                       THEN "read_priv" ELSE "generate"]]
    /\ UNCHANGED << servers, fs, workers, vcase, lib, returns >>

\* let keypair = KeyPair::generate()
KeysGenerate(c, d) ==
    /\ callers[c].pc = "generate"
    /\ callers' = [callers EXCEPT ![c].keypair = Ok(generate(d)),
                                  ![c].pc = "save_priv"]
    /\ UNCHANGED << servers, fs, workers, vcase, lib, returns >>

\* saving the private key only when its file is missing
KeysSavePriv_keep_existing(c) ==
    /\ callers[c].pc = "save_priv"
    /\ fs' = IF fs[PRIVATE_BIN].exists THEN fs
             ELSE [fs EXCEPT ![PRIVATE_BIN] =
                      FileOf(private_key_bytes_of(callers[c].keypair.val))]
    /\ callers' = [callers EXCEPT ![c].pc = "save_pub"]
    /\ UNCHANGED << servers, workers, vcase, lib, returns >>

\* save_to_files: File::create(private_key_path), write_all
KeysSavePriv(c) ==
    /\ callers[c].pc = "save_priv"
    /\ fs' = [fs EXCEPT ![PRIVATE_BIN] =
                 FileOf(private_key_bytes_of(callers[c].keypair.val))]
    /\ callers' = [callers EXCEPT ![c].pc = "save_pub"]
    /\ UNCHANGED << servers, workers, vcase, lib, returns >>

\* save_to_files: File::create(public_key_path), write_all
KeysSavePub(c) ==
    /\ callers[c].pc = "save_pub"
    /\ fs' = [fs EXCEPT ![PUBLIC_BIN] =
                 FileOf(public_key_bytes_of(callers[c].keypair.val))]
    /\ callers' = [callers EXCEPT ![c].pc = "read_priv"]
    /\ UNCHANGED << servers, workers, vcase, lib, returns >>

\* let priv_bytes = fs::read(PRIVATE_BIN)?
KeysReadPriv(c) ==
    /\ callers[c].pc = "read_priv"
    /\ LET f == read_file(fs, PRIVATE_BIN)
       IN IF f.ok
          THEN /\ callers' = [callers EXCEPT ![c].priv_bytes = f.val,
                                             ![c].pc = "read_pub"]
               /\ UNCHANGED returns
          ELSE /\ returns' = Append(returns, Returned(c, FALSE, <<>>, <<>>))
               /\ callers' = [callers EXCEPT ![c] = IdleCaller]
    /\ UNCHANGED << servers, fs, workers, vcase, lib >>

\* let pub_bytes = fs::read(PUBLIC_BIN)?; Ok((priv_bytes, pub_bytes))
KeysReadPub(c) ==
    /\ callers[c].pc = "read_pub"
    /\ LET f == read_file(fs, PUBLIC_BIN)
       IN returns' = Append(returns,
             IF f.ok THEN Returned(c, TRUE, callers[c].priv_bytes, f.val)
             ELSE Returned(c, FALSE, <<>>, <<>>))
    /\ callers' = [callers EXCEPT ![c] = IdleCaller]
    /\ UNCHANGED << servers, fs, workers, vcase, lib >>

load_or_generate_keys(c, alone) ==
    \/ KeysCheck(c, alone)
    \/ \E d \in GeneratedScalars : KeysGenerate(c, d)
    \/ KeysSavePriv(c)
    \/ KeysSavePub(c)
    \/ KeysReadPriv(c)
    \/ KeysReadPub(c)

\* key files as a start can find them: none, one of the two, or both halves
\* of a pair saved earlier
InitKeyFiles(privs, pubs) ==
    /\ servers = [s \in {"s1"} |-> SavedKeys(7)]
    /\ \E pf \in privs, qf \in pubs :
          fs = [f \in FileNames |->
                  IF f = PRIVATE_BIN THEN pf ELSE IF f = PUBLIC_BIN THEN qf ELSE NoFile]
    /\ workers = [w \in Workers |-> IdleWorker]
    /\ vcase = NoCase
    /\ lib = NoLib
    /\ callers = NoCallers
    /\ returns = <<>>

\* calls one after the other
InitKeysSeq ==
    InitKeyFiles({ NoFile, FileOf(SavedKeys(7).private_key_bytes) },
                 { NoFile, FileOf(SavedKeys(7).public_key_bytes) })

NextKeysSeq == \E c \in Callers : load_or_generate_keys(c, TRUE)

SpecKeysSeq == InitKeysSeq /\ [][NextKeysSeq]_vars

\* calls that overlap, begun with no key files
InitKeysRace == InitKeyFiles({ NoFile }, { NoFile })

NextKeysRace == \E c \in Callers : load_or_generate_keys(c, FALSE)

SpecKeysRace == InitKeysRace /\ [][NextKeysRace]_vars

\* ------------------------------------------------------------------------
\* Properties
\* ------------------------------------------------------------------------
SignDone(w) == workers[w].pc = "done" /\ workers[w].route = "/sign"

SignOk(w) == SignDone(w) /\ workers[w].resp.status = 200

KeyDone(w) == workers[w].pc = "done" /\ workers[w].route = "/key"

\* the two byte strings are the two halves of one key pair
IsKeyPair(k) ==
    LET sk == SigningKey_from_bytes(k.private_key_bytes)
        vk == from_sec1_bytes(k.public_key_bytes)
    IN sk.ok /\ vk.ok /\ VerifyingKeyFrom(sk.val) = vk.val

\* what GET /key of the worker's server answers
ServedKey(w) ==
    KeyOf(KeyResponse(workers[w].now, servers[workers[w].srv].public_key_bytes))

\* C1: when the server was started with the two halves of one key pair,
\* every 200 response of POST /sign passes verify_signature with the key
\* that GET /key returns.
C1_SignResponseVerifies ==
    \A w \in Workers :
        (SignOk(w) /\ IsKeyPair(servers[workers[w].srv]))
            => verify_signature(SignedOf(workers[w].resp), ServedKey(w))

\* C2: the timestamp string that was signed after the message is the string
\* in the response's time-signed field, for every instant.
C2_SignedTimestampIsReturned ==
    \A w \in Workers :
        SignOk(w) => workers[w].timestamp_str = workers[w].resp.time

\* C3: with a server started with one key pair, every sign request, whatever
\* the other workers do meanwhile, ends with status 200 and a signature
\* valid for its own message and its own signed timestamp; none panics.
C3_ConcurrentSignsSucceed ==
    \A w \in Workers :
        (workers[w].route = "/sign" /\ IsKeyPair(servers[workers[w].srv]))
            => /\ workers[w].pc # "panicked"
               /\ workers[w].pc = "done"
                     => /\ workers[w].resp.status = 200
                        /\ verify_signature(
                              [message |-> workers[w].resp.message,
                               time_signed |-> workers[w].timestamp_str,
                               signature |-> workers[w].resp.signature],
                              ServedKey(w))

\* some decode step of verify_signature fails on these fields
DecodeFails(signed, key) ==
    LET pub_bytes == Base64Decode(key.public_key)
        sig_bytes == Base64Decode(signed.signature)
    IN \/ ~pub_bytes.ok
       \/ ~sig_bytes.ok
       \/ ~from_sec1_bytes(pub_bytes.val).ok
       \/ ~signature_try_from(sig_bytes.val).ok

\* C4: verify_signature answers with a boolean for every pair of strings in
\* the public-key and signature fields, and with false whenever one of them
\* fails to decode (base64, point, or r||s).
C4_DecodeFailureIsFalse ==
    vcase.stage = "done"
        => /\ vcase.result \in BOOLEAN
           /\ DecodeFails(vcase.signed, vcase.key) => vcase.result = FALSE

\* a verification whose key field is no base64 and one whose signature
\* field is base64 of bytes that are no signature, both answered with false
C4_Witness ==
    /\ vcase.stage = "done"
    /\ vcase.result = FALSE
    /\ \/ ~Base64Decode(vcase.key.public_key).ok
       \/ /\ Base64Decode(vcase.signed.signature).ok
          /\ ~signature_try_from(Base64Decode(vcase.signed.signature).val).ok

\* C5 as stated: a response carrying a signature issued for (m, t) verifies
\* only when its message is m and its time-signed is t.
C5_OnlyExactPair ==
    (vcase.stage = "done" /\ vcase.signed.signature = vcase.issued.signature
     /\ vcase.result)
        => /\ vcase.signed.message = vcase.issued.message
           /\ vcase.signed.time_signed = vcase.issued.timestamp_str

\* C5 amended: a response carrying a signature issued for (m, t) verifies
\* only when its message followed by its time-signed is m followed by t.
C5_OnlySignedBytes ==
    (vcase.stage = "done" /\ vcase.signed.signature = vcase.issued.signature
     /\ vcase.result)
        => vcase.signed.message \o vcase.signed.time_signed
              = vcase.issued.message \o vcase.issued.timestamp_str

\* the issued signature, under the signer's own key, rejected for the signed
\* message with another timestamp
C5_Witness ==
    /\ vcase.stage = "done"
    /\ vcase.signed.signature = vcase.issued.signature
    /\ vcase.key.public_key
          = Base64Encode(to_encoded_point(VerifyingKeyFrom(vcase.issued.scalar)))
    /\ vcase.signed.message = vcase.issued.message
    /\ vcase.signed.time_signed # vcase.issued.timestamp_str
    /\ vcase.signed.time_signed \in TimeStrings
    /\ vcase.result = FALSE

\* C6: handling a sign request creates, writes and deletes no file.
C6_NoFileOperation == [][fs' = fs]_vars

\* C7: a sign request whose key pair cannot be loaded is answered with 500
\* and "Key load error": the handler does not panic and does not answer 200.
C7_KeyLoadFailureIs500 ==
    \A w \in Workers :
        /\ workers[w].pc # "panicked"
        /\ (SignDone(w) /\ ~workers[w].keypair.ok) => workers[w].resp = KeyLoadError

\* the bytes of the two key files do not make a key pair: the private file
\* is no scalar in 1..CurveOrder-1 or the public file is no point
BadKeyFiles ==
    /\ fs[PRIVATE_BIN].exists
    /\ fs[PUBLIC_BIN].exists
    /\ \/ Len(fs[PRIVATE_BIN].data) # FieldLen
       \/ BytesToInt(fs[PRIVATE_BIN].data) = 0
       \/ BytesToInt(fs[PRIVATE_BIN].data) >= CurveOrder
       \/ ~from_sec1_bytes(fs[PUBLIC_BIN].data).ok

\* C8: load_from_files on such files returns an error: it neither panics
\* nor returns a key pair.
C8_BadKeyFilesAreAnError ==
    (lib.stage = "loaded" /\ BadKeyFiles)
        => /\ ~lib.result.ok
           /\ lib.result.err # "panic"

IsDigit(c) == \E i \in 1..10 : DigitChars[i] = c

\* YYYY-MM-DDTHH:MM:SS.ffffffZ
IsMicrosForm(ts) ==
    /\ Len(ts) = 27
    /\ \A i \in {1, 2, 3, 4, 6, 7, 9, 10, 12, 13, 15, 16, 18, 19} : IsDigit(ts[i])
    /\ ts[5] = "-" /\ ts[8] = "-" /\ ts[11] = "T" /\ ts[14] = ":" /\ ts[17] = ":"
    /\ ts[20] = "."
    /\ \A i \in 21..26 : IsDigit(ts[i])
    /\ ts[27] = "Z"

\* C9: the time-signed field of every 200 sign response has the form
\* YYYY-MM-DDTHH:MM:SS.ffffffZ, six fractional digits, for every instant.
C9_TimeSignedHasSixDigits ==
    \A w \in Workers : SignOk(w) => IsMicrosForm(workers[w].resp.time)

\* C10: every GET /key response is a 200 whose public-key field is the
\* padded standard base64 of the public-key bytes the server was started
\* with (it decodes to exactly those bytes), whatever else was handled.
C10_SamePublicKey ==
    \A w \in Workers :
        KeyDone(w)
            => /\ workers[w].resp.status = 200
               /\ Len(workers[w].resp.public_key) % 4 = 0
               /\ Base64Decode(workers[w].resp.public_key).ok
               /\ Base64Decode(workers[w].resp.public_key).val
                     = servers[workers[w].srv].public_key_bytes
               /\ workers[w].resp.public_key
                     = Base64Encode(servers[workers[w].srv].public_key_bytes)

\* a key response next to a finished sign request of another worker
C10_Witness ==
    \E w1, w2 \in Workers :
        /\ w1 # w2
        /\ KeyDone(w1)
        /\ workers[w1].resp.public_key # <<>>
        /\ SignDone(w2)

\* C11: a signature issued for (A, T1) is rejected with (B, T1) for every
\* message B other than A, and with (A, T2) for every timestamp T2 other
\* than T1.
C11_CrossMessageRejected ==
    (/\ vcase.stage = "done"
     /\ vcase.signed.signature = vcase.issued.signature
     /\ \/ /\ vcase.signed.message # vcase.issued.message
           /\ vcase.signed.time_signed = vcase.issued.timestamp_str
        \/ /\ vcase.signed.message = vcase.issued.message
           /\ vcase.signed.time_signed # vcase.issued.timestamp_str)
        => vcase.result = FALSE

\* the issued signature, under the signer's own key, rejected for another
\* message with the signed timestamp
C11_Witness ==
    /\ vcase.stage = "done"
    /\ vcase.signed.signature = vcase.issued.signature
    /\ vcase.key.public_key
          = Base64Encode(to_encoded_point(VerifyingKeyFrom(vcase.issued.scalar)))
    /\ vcase.signed.message \in VerifyMessages \ { vcase.issued.message }
    /\ vcase.signed.time_signed = vcase.issued.timestamp_str
    /\ vcase.result = FALSE

\* the key field decodes to a point other than that of the issuing pair
OtherKey ==
    LET pub_bytes == Base64Decode(vcase.key.public_key)
    IN /\ pub_bytes.ok
       /\ from_sec1_bytes(pub_bytes.val).ok
       /\ from_sec1_bytes(pub_bytes.val).val # VerifyingKeyFrom(vcase.issued.scalar)

\* C12: a sign response verified with the public key of another key pair
\* than the one that made the signature is rejected.
C12_OtherKeyRejected ==
    (vcase.stage = "done" /\ vcase.signed.signature = vcase.issued.signature
     /\ OtherKey)
        => vcase.result = FALSE

\* the signed message and timestamp with the issued signature, rejected
\* under the key of the other generated pair
C12_Witness ==
    /\ vcase.stage = "done"
    /\ vcase.signed.signature = vcase.issued.signature
    /\ vcase.signed.message = vcase.issued.message
    /\ vcase.signed.time_signed = vcase.issued.timestamp_str
    /\ OtherKey
    /\ vcase.result = FALSE

\* the bytes are the two halves of one generated key pair
IsSavedPair(priv_bytes, pub_bytes) == IsKeyPair(KeyBytes(priv_bytes, pub_bytes))

\* C13: a call of load_or_generate_keys that finds neither key file creates
\* both and returns their non-empty contents; every later call, the files
\* untouched in between, returns the same two byte vectors and leaves the
\* files as they were.
C13_LoadOrGenerateIdempotent ==
    (returns # <<>> /\ returns[1].found = <<FALSE, FALSE>>)
        => /\ returns[1].ok
           /\ returns[1].generated
           /\ returns[1].priv # <<>>
           /\ returns[1].pub # <<>>
           /\ returns[1].files = << FileOf(returns[1].priv), FileOf(returns[1].pub) >>
           /\ \A i \in 2..Len(returns) :
                 /\ returns[i].ok
                 /\ ~returns[i].generated
                 /\ returns[i].priv = returns[1].priv
                 /\ returns[i].pub = returns[1].pub
                 /\ returns[i].files = returns[1].files

\* a second call has returned after a first one that found no key file
C13_Witness ==
    /\ Len(returns) >= 2
    /\ returns[1].found = <<FALSE, FALSE>>
    /\ returns[2].found = <<TRUE, TRUE>>
    /\ returns[2].priv = returns[1].priv

\* C20: when all overlapping calls begun with no key files are over, the two
\* key files hold the halves of one key pair and every call has returned
\* the two halves of one key pair.
C20_RacingCallsAgree ==
    (returns # <<>> /\ \A c \in Callers : callers[c].pc = "idle")
        => /\ fs[PRIVATE_BIN].exists /\ fs[PUBLIC_BIN].exists
           /\ IsSavedPair(fs[PRIVATE_BIN].data, fs[PUBLIC_BIN].data)
           /\ \A i \in 1..Len(returns) :
                 returns[i].ok /\ IsSavedPair(returns[i].priv, returns[i].pub)

\* C14: the key pair loaded from the files a generated key pair saved reports
\* the same public key as the generated one, and each of the two verifies
\* every signature made by the other.
C14_KeyRoundTrip ==
    /\ lib.stage \in { "loaded", "signed", "tampered", "verified" }
          => /\ lib.loaded.ok
             /\ lib.loaded.val.verifying_key = lib.kp.val.verifying_key
             /\ public_key_bytes_of(lib.loaded.val) = public_key_bytes_of(lib.kp.val)
    /\ (lib.stage = "verified" /\ ~lib.tamper.done) => lib.result = Ok(TRUE)

C14_Witness ==
    /\ lib.stage = "verified" /\ ~lib.tamper.done
    /\ lib.signer = "keypair" /\ lib.verifier = "loaded_keypair"
    /\ lib.kp.val.signing_key = CurveOrder - 1
    /\ lib.result = Ok(TRUE)

C15_WitnessUndecodable ==
    /\ lib.stage = "verified" /\ lib.tamper.done
    /\ ~lib.decoded.ok
    /\ lib.result = lib.decoded

\* C16: every request to a path other than /key and /sign is answered with
\* 400 and the body "Invalid request", whatever was handled before it.
C16_OtherRouteIsBadRequest ==
    \A w \in Workers :
        (workers[w].pc = "done" /\ workers[w].route = "other")
            => /\ workers[w].resp.status = 400
               /\ workers[w].resp.body = "Invalid request"

C16_Witness ==
    \E w, v \in Workers :
        /\ workers[w].pc = "done" /\ workers[w].route = "other"
        /\ workers[w].resp = BadRequest
        /\ workers[v].pc = "panicked"

\* C17: when a sign request has ended, with a response or without one, and
\* no other request is being handled, neither temp key file exists.
C17_TempFilesRemoved ==
    \A w \in Workers :
        ( /\ workers[w].route = "/sign"
          /\ workers[w].pc \in { "done", "panicked" }
          /\ \A v \in Workers \ {w} : workers[v].pc = "idle" )
            => /\ ~fs[priv_file(ProcessId)].exists
               /\ ~fs[pub_file(ProcessId)].exists

\* a valid private key with the valid public key of another key pair
MismatchedHalves(k) ==
    LET sk == SigningKey_from_bytes(k.private_key_bytes)
        vk == from_sec1_bytes(k.public_key_bytes)
    IN sk.ok /\ vk.ok /\ VerifyingKeyFrom(sk.val) # vk.val

\* the sign response with the timestamp string that was signed put in its
\* time-signed field
SignedAsIssued(w) ==
    [SignedOf(workers[w].resp) EXCEPT !.time_signed = workers[w].timestamp_str]

\* the start-up bytes with the private key of one generated pair and the
\* public key of the other
MismatchedKeys ==
    KeyBytes(SavedKeys(7).private_key_bytes, SavedKeys(11).public_key_bytes)

\* the key pair whose private key is the private half of MismatchedKeys
MismatchedSigner == generate(7)

\* the private half of MismatchedKeys with the point of its public half
MismatchedKeyPair ==
    [signing_key |-> MismatchedSigner.signing_key,
     verifying_key |-> generate(11).verifying_key]

\* C18: on a server started with a valid private key and the valid public
\* key of another pair, loading the keys never fails for the mismatch; the
\* loaded KeyPair holds the private key and the unrelated public key, the
\* request is answered with 200, and the signature is the one the private
\* key makes: even with the signed timestamp string in its time-signed
\* field the response fails verify_signature under the key GET /key serves.
C18_HalvesNotCrossChecked ==
    \A w \in Workers :
        (SignDone(w) /\ servers[workers[w].srv] = MismatchedKeys)
            => IF workers[w].keypair.ok
               THEN /\ workers[w].keypair.val = MismatchedKeyPair
                    /\ workers[w].resp.status = 200
                    /\ workers[w].resp.signature
                          = sign_request(MismatchedSigner, workers[w].message,
                                         workers[w].now).resp.signature
                    /\ ~verify_signature(SignedAsIssued(w), ServedKey(w))
               ELSE workers[w].keypair.err = "NotFound"

C18_Witness ==
    \E w \in Workers :
        /\ SignOk(w) /\ servers[workers[w].srv] = MismatchedKeys
        /\ MismatchedHalves(servers[workers[w].srv])
        /\ workers[w].keypair.ok
        /\ SignedOf(workers[w].resp) = SignedAsIssued(w)
        /\ ~verify_signature(SignedOf(workers[w].resp), ServedKey(w))

\* C19: with two servers of different key pairs in one process, every 200
\* response of POST /sign is signed with the private key of the server that
\* answered, and its signature over the signed bytes verifies under the key
\* that server's GET /key returns.
C19_OwnKeySigns ==
    \A w \in Workers :
        SignOk(w)
            => /\ private_key_bytes_of(workers[w].keypair.val)
                     = servers[workers[w].srv].private_key_bytes
               /\ verify_signature(SignedAsIssued(w), ServedKey(w))

\* C21: whatever requests the server handles, the two persisted key files
\* exist and hold the bytes they held at start-up, so a later
\* load_or_generate_keys reads the same bytes; the temp file names of no
\* process id are the names of the persisted files.
C21_PersistedKeysUntouched ==
    /\ \A s \in DOMAIN servers :
          /\ read_file(fs, PRIVATE_BIN) = Ok(servers[s].private_key_bytes)
          /\ read_file(fs, PUBLIC_BIN) = Ok(servers[s].public_key_bytes)
    /\ \A id \in ProcessIds :
          { priv_file(id), pub_file(id) } \cap { PRIVATE_BIN, PUBLIC_BIN } = {}

C21_Witness ==
    /\ \E w \in Workers : SignOk(w)
    /\ \E w \in Workers : workers[w].pc = "remove_pub"
    /\ ~fs[priv_file(ProcessId)].exists
    /\ read_file(fs, PRIVATE_BIN) = Ok(servers["s1"].private_key_bytes)
    /\ read_file(fs, PUBLIC_BIN) = Ok(servers["s1"].public_key_bytes)

\* C22: a call of load_or_generate_keys that finds exactly one of the two
\* key files generates a key pair, leaves both files holding that pair and
\* returns its two halves.
C22_OneFileMissingRegenerates ==
    \A i \in 1..Len(returns) :
        (returns[i].found[1] # returns[i].found[2])
            => /\ returns[i].ok /\ returns[i].generated /\ returns[i].fresh.ok
               /\ returns[i].priv = private_key_bytes_of(returns[i].fresh.val)
               /\ returns[i].pub = public_key_bytes_of(returns[i].fresh.val)
               /\ IsSavedPair(returns[i].priv, returns[i].pub)
               /\ returns[i].files = << FileOf(returns[i].priv), FileOf(returns[i].pub) >>

C22_Witness ==
    \E i \in 1..Len(returns) :
        /\ returns[i].found = << TRUE, FALSE >>
        /\ returns[i].ok
        /\ returns[i].priv = SavedKeys(11).private_key_bytes
        /\ returns[i].pub = SavedKeys(11).public_key_bytes

====
